---- MODULE Spec2Model ----
(***************************************************************************)
(* Proton placement of src/md_script/add_proton.py: find_neighbors,        *)
(* calculate_direction and add_protons_wisely, run on a periodic           *)
(* orthorhombic structure; and the condition loop of                       *)
(* src/stability/phase_diag_fixed.py: calculate_phase_diagram and          *)
(* run_calculations of PhaseDiagramCalculator.                             *)
(*                                                                         *)
(* Lengths are integers in units of 0.02 Angstrom (0.98 -> 49, 1.2 -> 60,  *)
(* 3.0 -> 150, 0.1 -> 5).  A position is a triple of such integers; the    *)
(* resolution of the grid stands for the precision of the floats.          *)
(* Distances are compared through their squares, which is exact.           *)
(***************************************************************************)
EXTENDS Integers, Sequences, FiniteSets, TLC

VARIABLES
    heap,             \* the Atoms objects: heap[r] is the atom list of object r
    cell,             \* orthorhombic cell lengths <<a, b, c>> of the structure
    callerBulk,       \* module-level name `bulk` (line 60/61): an object reference
    bulk,             \* parameter `bulk` of add_protons_wisely: an object reference
    n_protons,        \* argument n_protons
    oh_bond_length,   \* argument oh_bond_length
    o_indices,        \* local o_indices (line 32)
    i,                \* loop variable of line 34 (iterations completed)
    pc,               \* "call" | "loop" | "done" | "idle"
    log,              \* the printed diagnostics, one record per iteration
    atoms0,           \* history: the atom list of the input at the call
    neighbors,        \* local `neighbors` (line 45) / argument of calculate_direction
    direction,        \* local `direction` (line 46) / result of calculate_direction
    \* PhaseDiagramCalculator.run_calculations (phase_diag_fixed.py)
    material_energy,  \* self.material_energy
    entries_data,     \* local entries_data (line 264): per condition, what the
                      \* library makes of the entries prepared for it
    condition,        \* loop variable of line 269, as a position in Conditions
    results,          \* local results (line 266)
    logger,           \* the records given to logger, in order
    printed,          \* the conditions whose results were printed (lines 282-286)
    exception,        \* the exception in flight out of run_calculations, or NoException
    run_pc            \* "idle" | "call" | "loop" | "returned" | "raised"

protonVars == <<heap, cell, callerBulk, bulk, n_protons, oh_bond_length, o_indices, i,
                pc, log, atoms0, neighbors, direction>>

pdVars == <<material_energy, entries_data, condition, results, logger, printed, exception,
            run_pc>>

vars == <<protonVars, pdVars>>

NoException == "None"

\* run_calculations is not running.
PdIdle ==
    /\ material_energy = 0
    /\ entries_data = <<>>
    /\ condition = 0
    /\ results = <<>>
    /\ logger = <<>>
    /\ printed = <<>>
    /\ exception = NoException
    /\ run_pc = "idle"

(***************************************************************************)
(* Program constants, in units of 0.02 Angstrom.                           *)
(***************************************************************************)
ExclusionDist == 60
DefaultOhBondLength == 49
DefaultNeighborMaxDist == 150
DeviationTol == 5
max_neighbors == 3
\* norm > 1e-6 with norm in 1/Angstrom: norm_in_model_units * 50 > 1e-6,
\* that is norm_in_model_units * InvNormEps > 1.
InvNormEps == 50000000

(***************************************************************************)
(* Bounds of the model.                                                    *)
(***************************************************************************)
MaxAtoms == 3
MaxProtons == 3
SiteStep == 55
\* Precision of the arithmetic: fixed-point sums hold FixedOne to the unit, and
\* a direction is normalised from components of at most DirPrecision.
FixedOne == 500000000
DirPrecision == 16384
CellLarge == 301
CellSmall == 81
LongOhBondLength == 65
MaxRecords == 4
RecStep == 3
\* Energies of the test material per atom run over -MaxEnergy..-1, and the
\* energies the phase diagram reports over -MaxHull..0 and 0..MaxHull.
MaxEnergy == 2
MaxHull == 1

(***************************************************************************)
(* Integer and vector helpers.                                             *)
(***************************************************************************)
Abs(a) == IF a < 0 THEN -a ELSE a

RECURSIVE Gcd(_, _)
Gcd(a, b) == IF b = 0 THEN Abs(a) ELSE Gcd(b, a % Abs(b))

VAdd(u, v) == <<u[1] + v[1], u[2] + v[2], u[3] + v[3]>>
VSub(u, v) == <<u[1] - v[1], u[2] - v[2], u[3] - v[3]>>
VScale(k, v) == <<k * v[1], k * v[2], k * v[3]>>
VDiv(v, k) == <<v[1] \div k, v[2] \div k, v[3] \div k>>
Norm2(v) == v[1] * v[1] + v[2] * v[2] + v[3] * v[3]
Zero3 == <<0, 0, 0>>

(***************************************************************************)
(* ISqrt(n): the largest s with s * s <= n (n < 2^31, so s <= 46340).      *)
(***************************************************************************)
RECURSIVE ISqrtIn(_, _, _)
ISqrtIn(n, lo, hi) ==
    IF lo >= hi THEN lo
    ELSE LET mid == (lo + hi + 1) \div 2
         IN IF mid * mid <= n THEN ISqrtIn(n, mid, hi) ELSE ISqrtIn(n, lo, mid - 1)

ISqrt(n) == ISqrtIn(n, 0, IF n < 46340 THEN n ELSE 46340)

\* a / b rounded to the nearest integer, halves away from zero (b > 0).
RoundDiv(a, b) ==
    IF a < 0 THEN -((2 * (-a) + b) \div (2 * b)) ELSE (2 * a + b) \div (2 * b)

(***************************************************************************)
(* RoundRootDiv(a, c, d, r): a * c / (d * sqrt(r)) rounded to the nearest  *)
(* integer (d > 0, r > 0, |c| <= d * sqrt(r)).  sqrt(r) is taken as s / f  *)
(* with f the largest factor that keeps r * f * f below 2^31 and s =       *)
(* ISqrt(r * f * f): exact when r is a perfect square, and within 1e-4     *)
(* relative otherwise.                                                     *)
(***************************************************************************)
RoundRootDiv(a, c, d, r) ==
    LET f == ISqrt(2147483647 \div r)
        s == ISqrt(r * f * f)
    IN RoundDiv(a * c * f, d * s)

(***************************************************************************)
(* Atoms.get_distance(a0, a1, mic=True) of the geometry library, for an    *)
(* orthorhombic periodic cell: the displacement positions[a1] -            *)
(* positions[a0], each component wrapped into [-L/2, L/2).  Indices are    *)
(* 1-based here (Python index k is k + 1; Python index -1 is Len(atoms)).  *)
(***************************************************************************)
Wrap(d, L) == d - L * ((2 * d + L) \div (2 * L))

\* Faulty variant: the displacement taken from a1 to a0.
MicVector_Reversed(atoms, c, a0, a1) ==
    LET d == VSub(atoms[a0].position, atoms[a1].position)
    IN <<Wrap(d[1], c[1]), Wrap(d[2], c[2]), Wrap(d[3], c[3])>>

MicVector(atoms, c, a0, a1) ==
    LET d == VSub(atoms[a1].position, atoms[a0].position)
    IN <<Wrap(d[1], c[1]), Wrap(d[2], c[2]), Wrap(d[3], c[3])>>

\* The square of get_distance(a0, a1, mic=True).
GetDistance2(atoms, c, a0, a1) == Norm2(MicVector(atoms, c, a0, a1))

(***************************************************************************)
(* find_neighbors.  A neighbor record {'dist': dist, 'vec': vec / |vec|}   *)
(* is held as [dist2 |-> dist * dist, vec |-> the displacement]: dist is   *)
(* the norm of the minimum-image displacement from the reference atom to   *)
(* atom i and 'vec' is that displacement over its norm, so the record is   *)
(* determined by the displacement.  dist2 = 0 (two atoms at one place)     *)
(* makes 'vec' 0/0 = nan in the code.                                      *)
(***************************************************************************)
NeighborRecord(v) == [dist2 |-> Norm2(v), vec |-> v]

RECURSIVE FindNeighborsFrom(_, _, _, _, _)
FindNeighborsFrom(atoms, c, index, max_dist, k) ==
    IF k > Len(atoms) THEN <<>>
    ELSE LET rest == FindNeighborsFrom(atoms, c, index, max_dist, k + 1)
         IN IF k # index /\ GetDistance2(atoms, c, index, k) < max_dist * max_dist
            THEN <<NeighborRecord(MicVector(atoms, c, index, k))>> \o rest
            ELSE rest

find_neighbors(atoms, c, index, max_dist) == FindNeighborsFrom(atoms, c, index, max_dist, 1)

(***************************************************************************)
(* calculate_direction.                                                    *)
(***************************************************************************)
\* sorted(neighbors, key=dist): a stable insertion sort on dist2.
RECURSIVE InsertByDist(_, _)
InsertByDist(rec, sorted) ==
    IF sorted = <<>> THEN <<rec>>
    ELSE IF Head(sorted).dist2 <= rec.dist2
         THEN <<Head(sorted)>> \o InsertByDist(rec, Tail(sorted))
         ELSE <<rec>> \o sorted

RECURSIVE SortedFrom(_, _)
SortedFrom(recs, k) ==
    IF k = 0 THEN <<>> ELSE InsertByDist(recs[k], SortedFrom(recs, k - 1))

SortByDist(recs) == SortedFrom(recs, Len(recs))

\* Faulty variant: no cap, every record contributes.
Closest_All(recs, cap) == SortByDist(recs)

\* sorted(...)[:max_neighbors]
Closest(recs, cap) ==
    LET srt == SortByDist(recs)
    IN SubSeq(srt, 1, IF Len(srt) < cap THEN Len(srt) ELSE cap)

\* neighbor['vec'] * weight: (v / |v|) * (1 / dist) = v / dist2, as a
\* fixed-point vector of FixedOne to the unit: component c is
\* FixedOne * c / dist2, rounded (|c| <= dist2, so no product exceeds FixedOne).
FixedQuot(c, q) == c * (FixedOne \div q) + RoundDiv(c * (FixedOne % q), q)

WeightedVec(rec) ==
    <<FixedQuot(rec.vec[1], rec.dist2), FixedQuot(rec.vec[2], rec.dist2),
      FixedQuot(rec.vec[3], rec.dist2)>>

\* Faulty variant: direction += vec * weight.
RECURSIVE Accumulate_Added(_, _)
Accumulate_Added(sel, k) ==
    IF k = 0 THEN Zero3 ELSE VAdd(Accumulate_Added(sel, k - 1), WeightedVec(sel[k]))

\* The loop of lines 23-26: direction = zeros(3); direction -= vec * weight.
RECURSIVE Accumulate(_, _)
Accumulate(sel, k) ==
    IF k = 0 THEN Zero3 ELSE VSub(Accumulate(sel, k - 1), WeightedVec(sel[k]))

\* A record of distance 0 carries vec = nan and weight = inf: the sum is nan.
IsNan(sel) == \E k \in 1..Len(sel) : sel[k].dist2 = 0

MaxAbs(v) ==
    LET m == IF Abs(v[1]) > Abs(v[2]) THEN Abs(v[1]) ELSE Abs(v[2])
    IN IF m > Abs(v[3]) THEN m ELSE Abs(v[3])

\* norm > 1e-6 for the fixed-point vector d: |d| > NormEps.
NormEps == FixedOne \div InvNormEps

NormAboveEps(d) ==
    IF MaxAbs(d) > NormEps THEN TRUE ELSE Norm2(d) > NormEps * NormEps

(***************************************************************************)
(* A direction is [vec, den, rad], standing for vec / (den * sqrt(rad)).   *)
(* direction / norm is the vector over its own length: vec is the sum in   *)
(* lowest terms and rad its squared length.  A vector with a component     *)
(* above DirPrecision is first rounded to components of at most that size  *)
(* (a relative error below 1e-4 in the direction).                         *)
(***************************************************************************)
\* Faulty variant: return direction without dividing by norm (the sum itself, held to
\* DirPrecision to the unit).
Normalized_Raw(d) ==
    [vec |-> <<RoundDiv(d[1], FixedOne \div DirPrecision),
               RoundDiv(d[2], FixedOne \div DirPrecision),
               RoundDiv(d[3], FixedOne \div DirPrecision)>>,
     den |-> DirPrecision, rad |-> 1]

Normalized(d) ==
    LET g == Gcd(Gcd(d[1], d[2]), d[3])
        e == VDiv(d, g)
        k == MaxAbs(e) \div DirPrecision + 1
        r == IF k = 1 THEN e
             ELSE <<RoundDiv(e[1], k), RoundDiv(e[2], k), RoundDiv(e[3], k)>>
    IN [vec |-> r, den |-> 1, rad |-> Norm2(r)]

\* np.array([0, 0, 1])
Fallback == [vec |-> <<0, 0, 1>>, den |-> 1, rad |-> 1]

calculate_direction(recs) ==
    LET sel == Closest(recs, max_neighbors)
        d == Accumulate(sel, Len(sel))
    IN IF IsNan(sel) THEN Fallback            \* nan > 1e-6 is False
       ELSE IF NormAboveEps(d) THEN Normalized(d)
       ELSE Fallback

\* direction * oh_bond_length, rounded to the grid.
Scaled(d, len) ==
    <<RoundRootDiv(len, d.vec[1], d.den, d.rad),
      RoundRootDiv(len, d.vec[2], d.den, d.rad),
      RoundRootDiv(len, d.vec[3], d.den, d.rad)>>

\* Whether vec / (den * sqrt(rad)) has magnitude 1.
IsUnit(d) == Norm2(d.vec) = d.den * d.den * d.rad

(***************************************************************************)
(* add_protons_wisely.                                                     *)
(***************************************************************************)
Atom(sym, pos) == [symbol |-> sym, position |-> pos]

\* [i for i, symbol in enumerate(bulk.symbols) if symbol == 'O']
RECURSIVE IndicesOf(_, _, _)
IndicesOf(atoms, sym, k) ==
    IF k > Len(atoms) THEN <<>>
    ELSE (IF atoms[k].symbol = sym THEN <<k>> ELSE <<>>) \o IndicesOf(atoms, sym, k + 1)

OIndices(atoms) == IndicesOf(atoms, "O", 1)

\* Faulty variant: the exclusion test with half the threshold (0.6 instead of 1.2).
HasCloseH_Narrow(atoms, c, idx) ==
    \E j \in 1..Len(atoms) :
        /\ atoms[j].symbol = "H"
        /\ 4 * GetDistance2(atoms, c, idx, j) < ExclusionDist * ExclusionDist

\* Faulty variant: the threshold follows the bond length (oh_bond_length + 0.22).
HasCloseH_BondScaled(atoms, c, idx) ==
    \E j \in 1..Len(atoms) :
        /\ atoms[j].symbol = "H"
        /\ GetDistance2(atoms, c, idx, j) <
               (ExclusionDist - DefaultOhBondLength + oh_bond_length)
                   * (ExclusionDist - DefaultOhBondLength + oh_bond_length)

\* any(bulk.get_distance(idx, j, mic=True) < 1.2 for j, s in ... if s == 'H')
HasCloseH(atoms, c, idx) ==
    \E j \in 1..Len(atoms) :
        /\ atoms[j].symbol = "H"
        /\ GetDistance2(atoms, c, idx, j) < ExclusionDist * ExclusionDist

\* available_o of lines 35-37, in the order of o_indices.
AvailableO(atoms, c, oidx) == SelectSeq(oidx, LAMBDA idx : ~HasCloseH(atoms, c, idx))

\* Faulty variant: the last available oxygen (available_o[-1]).
ChooseO_Last(avail) == avail[Len(avail)]

\* o_idx = available_o[0]
ChooseO(avail) == avail[1]

\* Faulty variant: range(n_protons + 1), one iteration too many.
InRange_OneMore(k, n) == k < n + 1

\* for i in range(n_protons): whether iteration number k (from 0) is run.
InRange(k, n) == k < n

\* Faulty variant: the bond length is left out (h_pos = o_pos + direction).
HPos_Unscaled(o_pos, d, len) == VAdd(o_pos, Scaled(d, 1))

\* h_pos = o_pos + direction * oh_bond_length
HPos(o_pos, d, len) == VAdd(o_pos, Scaled(d, len))

\* Faulty variant: the new atom is put at the front of the list.
AppendAtom_Front(atoms, atom) == <<atom>> \o atoms

\* bulk.append(Atom('H', position=h_pos))
AppendAtom(atoms, atom) == Append(atoms, atom)

\* Faulty variant: only a bond that is too long is reported (oh_dist - oh_bond_length > 0.1).
Deviates_TooLongOnly(oh_dist2, len) ==
    oh_dist2 > (len + DeviationTol) * (len + DeviationTol)

\* abs(oh_dist - oh_bond_length) > 0.1, on the squared distance.
Deviates(oh_dist2, len) ==
    \/ oh_dist2 > (len + DeviationTol) * (len + DeviationTol)
    \/ /\ len - DeviationTol > 0
       /\ oh_dist2 < (len - DeviationTol) * (len - DeviationTol)

NoSite(h) ==
    [kind |-> "nosite", h |-> h, o |-> 0, pos |-> Zero3, dist2 |-> 0, deviates |-> FALSE]

Added(h, o, pos, d2, dev) ==
    [kind |-> "added", h |-> h, o |-> o, pos |-> pos, dist2 |-> d2, deviates |-> dev]

NoDirection == [vec |-> Zero3, den |-> 1, rad |-> 1]

(***************************************************************************)
(* The inputs of a run.                                                    *)
(***************************************************************************)
Symbols == {"O", "H", "Zr"}

Sites == {<<0, 0, 0>>, <<0, 0, SiteStep>>, <<0, 0, 2 * SiteStep>>, <<2 * SiteStep, 0, 0>>}

\* A cubic cell, and a cell whose c axis is shorter than two bond lengths.
Cells == <<(<<CellLarge, CellLarge, CellLarge>>), (<<CellLarge, CellLarge, CellSmall>>)>>

AtomSet == [symbol : Symbols, position : Sites]

\* Atom lists of at most MaxAtoms atoms, no two at one place.
Structures ==
    {a \in UNION {[1..k -> AtomSet] : k \in 0..MaxAtoms} :
        \A j, k \in 1..Len(a) : j # k => a[j].position # a[k].position}

BondLengths == {DefaultOhBondLength, LongOhBondLength}

\* The reference of the Atoms object that read() returns and the call is given.
InputRef == 1

Init ==
    /\ \E k \in 1..Len(Cells) : cell = Cells[k]
    /\ \E a \in Structures : heap = <<a>> /\ atoms0 = a
    /\ callerBulk = InputRef
    /\ bulk = 0
    /\ n_protons \in 0..MaxProtons
    /\ oh_bond_length \in BondLengths
    /\ o_indices = <<>>
    /\ i = 0
    /\ pc = "call"
    /\ log = <<>>
    /\ neighbors = <<>>
    /\ direction = NoDirection
    /\ PdIdle

\* Faulty variant: the function works on a copy of its argument (bulk = bulk.copy()).
Call_OnCopy ==
    /\ pc = "call"
    /\ heap' = Append(heap, heap[callerBulk])
    /\ bulk' = Len(heap) + 1
    /\ o_indices' = OIndices(heap[callerBulk])
    /\ i' = 0
    /\ pc' = "loop"
    /\ UNCHANGED pdVars
    /\ UNCHANGED <<cell, callerBulk, n_protons, oh_bond_length, log, atoms0, neighbors,
                   direction>>

\* bulk = add_protons_wisely(bulk, ...): the parameter is bound to the caller's
\* object, and line 32 runs.
Call ==
    /\ pc = "call"
    /\ bulk' = callerBulk
    /\ o_indices' = OIndices(heap[callerBulk])
    /\ i' = 0
    /\ pc' = "loop"
    /\ UNCHANGED pdVars
    /\ UNCHANGED <<heap, cell, callerBulk, n_protons, oh_bond_length, log, atoms0,
                   neighbors, direction>>

\* Faulty variant: break instead of continue.
IterSkip_Break ==
    /\ pc = "loop"
    /\ InRange(i, n_protons)
    /\ AvailableO(heap[bulk], cell, o_indices) = <<>>
    /\ log' = Append(log, NoSite(i + 1))
    /\ i' = n_protons
    /\ UNCHANGED pdVars
    /\ UNCHANGED <<heap, cell, callerBulk, bulk, n_protons, oh_bond_length, o_indices,
                   pc, atoms0, neighbors, direction>>

\* One iteration that finds no available oxygen (lines 35-41).
IterSkip ==
    /\ pc = "loop"
    /\ InRange(i, n_protons)
    /\ AvailableO(heap[bulk], cell, o_indices) = <<>>
    /\ log' = Append(log, NoSite(i + 1))
    /\ i' = i + 1
    /\ UNCHANGED pdVars
    /\ UNCHANGED <<heap, cell, callerBulk, bulk, n_protons, oh_bond_length, o_indices,
                   pc, atoms0, neighbors, direction>>

\* Faulty variant: the availability test and the neighbor search read the
\* structure as it was at the call, not the structure grown so far.
IterInsert_Snapshot ==
    /\ pc = "loop"
    /\ InRange(i, n_protons)
    /\ AvailableO(atoms0, cell, o_indices) # <<>>
    /\ LET o_idx == ChooseO(AvailableO(atoms0, cell, o_indices))
           o_pos == heap[bulk][o_idx].position
           nb == find_neighbors(atoms0, cell, o_idx, DefaultNeighborMaxDist)
           dir == calculate_direction(nb)
           h_pos == HPos(o_pos, dir, oh_bond_length)
           grown == AppendAtom(heap[bulk], Atom("H", h_pos))
           oh_dist2 == GetDistance2(grown, cell, Len(grown), o_idx)
       IN /\ neighbors' = nb
          /\ direction' = dir
          /\ heap' = [heap EXCEPT ![bulk] = grown]
          /\ log' = Append(log, Added(i + 1, o_idx, h_pos, oh_dist2,
                                      Deviates(oh_dist2, oh_bond_length)))
    /\ i' = i + 1
    /\ UNCHANGED pdVars
    /\ UNCHANGED <<cell, callerBulk, bulk, n_protons, oh_bond_length, o_indices, pc,
                   atoms0>>

\* One iteration that inserts a hydrogen (lines 35-37, 43-55).
IterInsert ==
    /\ pc = "loop"
    /\ InRange(i, n_protons)
    /\ AvailableO(heap[bulk], cell, o_indices) # <<>>
    /\ LET o_idx == ChooseO(AvailableO(heap[bulk], cell, o_indices))
           o_pos == heap[bulk][o_idx].position
           nb == find_neighbors(heap[bulk], cell, o_idx, DefaultNeighborMaxDist)
           dir == calculate_direction(nb)
           h_pos == HPos(o_pos, dir, oh_bond_length)
           grown == AppendAtom(heap[bulk], Atom("H", h_pos))
           oh_dist2 == GetDistance2(grown, cell, Len(grown), o_idx)
       IN /\ neighbors' = nb
          /\ direction' = dir
          /\ heap' = [heap EXCEPT ![bulk] = grown]
          /\ log' = Append(log, Added(i + 1, o_idx, h_pos, oh_dist2,
                                      Deviates(oh_dist2, oh_bond_length)))
    /\ i' = i + 1
    /\ UNCHANGED pdVars
    /\ UNCHANGED <<cell, callerBulk, bulk, n_protons, oh_bond_length, o_indices, pc,
                   atoms0>>

\* return bulk (line 57), bound to the caller's name (line 61).
Return ==
    /\ pc = "loop"
    /\ ~InRange(i, n_protons)
    /\ callerBulk' = bulk
    /\ pc' = "done"
    /\ UNCHANGED pdVars
    /\ UNCHANGED <<heap, cell, bulk, n_protons, oh_bond_length, o_indices, i, log,
                   atoms0, neighbors, direction>>

Next == Call \/ IterSkip \/ IterInsert \/ Return

Spec == Init /\ [][Next]_vars

(***************************************************************************)
(* calculate_direction as a pure function: neighbor lists are built one    *)
(* record at a time from a bounded set of displacements, and the function  *)
(* is applied to the list built so far.                                    *)
(***************************************************************************)
RecVecs ==
    {<<0, 0, RecStep>>, <<0, 0, -RecStep>>, <<RecStep, 0, 0>>, <<0, 0, 2 * RecStep>>,
     <<0, RecStep, 2 * RecStep>>, <<0, 0, 0>>}

DirInit ==
    /\ neighbors = <<>>
    /\ direction = NoDirection
    /\ pc = "idle"
    /\ heap = <<>>
    /\ cell = <<CellLarge, CellLarge, CellLarge>>
    /\ callerBulk = 0
    /\ bulk = 0
    /\ n_protons = 0
    /\ oh_bond_length = DefaultOhBondLength
    /\ o_indices = <<>>
    /\ i = 0
    /\ log = <<>>
    /\ atoms0 = <<>>
    /\ PdIdle

\* The caller extends the list; no result is held for the new list yet.
AddRecord ==
    /\ pc = "idle"
    /\ Len(neighbors) < MaxRecords
    /\ \E v \in RecVecs : neighbors' = Append(neighbors, NeighborRecord(v))
    /\ direction' = NoDirection
    /\ UNCHANGED pdVars
    /\ UNCHANGED <<heap, cell, callerBulk, bulk, n_protons, oh_bond_length, o_indices, i,
                   pc, log, atoms0>>

\* direction = calculate_direction(neighbors)
CallDirection ==
    /\ pc = "idle"
    /\ direction' = calculate_direction(neighbors)
    /\ UNCHANGED pdVars
    /\ UNCHANGED <<heap, cell, callerBulk, bulk, n_protons, oh_bond_length, o_indices, i,
                   pc, log, atoms0, neighbors>>

DirNext == AddRecord \/ CallDirection

DirSpec == DirInit /\ [][DirNext]_vars

(***************************************************************************)
(* PhaseDiagramCalculator (src/stability/phase_diag_fixed.py).             *)
(*                                                                         *)
(* The entries that prepare_entries builds for a condition matter here     *)
(* only through what the library makes of them, so entries_data[c] holds   *)
(* that: GrandPotentialPhaseDiagram(entries, chem_potentials) raises, or   *)
(* gives a diagram without the test entry, or one with it.  Energies are   *)
(* integers; None is a record of its own.                                  *)
(***************************************************************************)
\* for condition in ["A", "C", "X"]
Conditions == <<"A", "C", "X">>

ConditionSet == {Conditions[k] : k \in 1..Len(Conditions)}

LibraryOutcomes == {"raises", "without_test_entry", "with_test_entry"}

\* Ba8Zr8O24: test_entry.composition.num_atoms
NumAtoms == 40

MaterialEnergies == {-(NumAtoms * e) : e \in 1..MaxEnergy}

\* What get_form_energy_per_atom and get_e_above_hull may report.
FormationEnergies == (-MaxHull)..0
HullEnergies == 0..MaxHull

None == [some |-> FALSE, value |-> 0]
Some(x) == [some |-> TRUE, value |-> x]

\* The local name pd of calculate_phase_diagram: bound to the diagram built
\* for a condition, or not bound yet.
Unbound == [bound |-> FALSE, condition |-> ""]
Diagram(cond) == [bound |-> TRUE, condition |-> cond]

LogRecord(level, cond) == [level |-> level, condition |-> cond]

\* The two ways out of a call: a value, or an exception.
Returned(value, logged) == [raised |-> NoException, ret |-> value, logged |-> logged]
Raised(exc, logged) == [raised |-> exc, ret |-> <<>>, logged |-> logged]

\* return pd, energy_per_atom, formation_energy, energy_above_hull: building
\* the tuple reads the local pd, which raises UnboundLocalError when no
\* assignment to pd has been made.
ReturnTuple(pd, energy_per_atom, formation_energy, energy_above_hull, logged) ==
    IF pd.bound
    THEN Returned(<<pd, energy_per_atom, formation_energy, energy_above_hull>>, logged)
    ELSE Raised("UnboundLocalError", logged)

(***************************************************************************)
(* calculate_phase_diagram(condition, entries, chem_potentials,            *)
(* test_entry): library is what the constructor does with the entries,     *)
(* energy the energy of the test entry, form and hull what the diagram     *)
(* reports for the test entry when it holds it.                            *)
(***************************************************************************)
calculate_phase_diagram(cond, library, energy, form, hull) ==
    LET info == LogRecord("info", cond)
    IN IF library = "raises"
       THEN \* the constructor raised inside try: pd was not assigned
            ReturnTuple(Unbound, 0, None, None, <<info, LogRecord("error", cond)>>)
       ELSE LET pd == Diagram(cond)
                energy_per_atom == energy \div NumAtoms
            IN IF library = "without_test_entry"
               THEN ReturnTuple(pd, energy_per_atom, None, None,
                                <<info, LogRecord("warning", cond), LogRecord("debug", cond)>>)
               ELSE ReturnTuple(pd, energy_per_atom, Some(form), Some(hull),
                                <<info, LogRecord("debug", cond)>>)

\* results[condition] = {...}, results being a dict.
DictSet(dict, key, value) ==
    [k \in DOMAIN dict \cup {key} |-> IF k = key THEN value ELSE dict[k]]

EmptyDict == [k \in {} |-> None]

ResultRecord(ret) ==
    [phase_diagram |-> ret[1], energy_per_atom |-> ret[2], formation_energy |-> ret[3],
     energy_above_hull |-> ret[4]]

PdInit ==
    /\ material_energy \in MaterialEnergies
    /\ entries_data \in [ConditionSet -> [library : LibraryOutcomes]]
    /\ condition = 0
    /\ results = <<>>
    /\ logger = <<>>
    /\ printed = <<>>
    /\ exception = NoException
    /\ run_pc = "call"
    /\ neighbors = <<>>
    /\ direction = NoDirection
    /\ pc = "idle"
    /\ heap = <<>>
    /\ cell = <<CellLarge, CellLarge, CellLarge>>
    /\ callerBulk = 0
    /\ bulk = 0
    /\ n_protons = 0
    /\ oh_bond_length = DefaultOhBondLength
    /\ o_indices = <<>>
    /\ i = 0
    /\ log = <<>>
    /\ atoms0 = <<>>

\* calculator.run_calculations(): entries_data = self.prepare_entries();
\* results = {}; the loop starts at the first condition.
RunCalculations ==
    /\ run_pc = "call"
    /\ results' = EmptyDict
    /\ condition' = 1
    /\ run_pc' = "loop"
    /\ UNCHANGED <<material_energy, entries_data, logger, printed, exception>>
    /\ UNCHANGED protonVars

\* One iteration in which calculate_phase_diagram returns (lines 269-286).
CalculateCondition ==
    /\ run_pc = "loop"
    /\ condition <= Len(Conditions)
    /\ \E form \in FormationEnergies, hull \in HullEnergies :
          LET cond == Conditions[condition]
              call == calculate_phase_diagram(cond, entries_data[cond].library,
                                              material_energy, form, hull)
          IN /\ call.raised = NoException
             /\ results' = DictSet(results, cond, ResultRecord(call.ret))
             /\ logger' = logger \o call.logged
             /\ printed' = Append(printed, cond)
    /\ condition' = condition + 1
    /\ UNCHANGED <<material_energy, entries_data, exception, run_pc>>
    /\ UNCHANGED protonVars

\* One iteration in which calculate_phase_diagram raises: run_calculations
\* has no handler, so the exception leaves it and the loop is over.
CalculateRaises ==
    /\ run_pc = "loop"
    /\ condition <= Len(Conditions)
    /\ \E form \in FormationEnergies, hull \in HullEnergies :
          LET cond == Conditions[condition]
              call == calculate_phase_diagram(cond, entries_data[cond].library,
                                              material_energy, form, hull)
          IN /\ call.raised # NoException
             /\ exception' = call.raised
             /\ logger' = logger \o call.logged
    /\ run_pc' = "raised"
    /\ UNCHANGED <<material_energy, entries_data, condition, results, printed>>
    /\ UNCHANGED protonVars

\* The loop is exhausted and run_calculations returns.
RunReturns ==
    /\ run_pc = "loop"
    /\ condition > Len(Conditions)
    /\ run_pc' = "returned"
    /\ UNCHANGED <<material_energy, entries_data, condition, results, logger, printed,
                   exception>>
    /\ UNCHANGED protonVars

PdNext == RunCalculations \/ CalculateCondition \/ CalculateRaises \/ RunReturns

PdSpec == PdInit /\ [][PdNext]_vars

(***************************************************************************)
(* State functions used by the properties below.                           *)
(***************************************************************************)
\* The atom list of the working structure, once the call has bound it.
Working == heap[bulk]

RECURSIVE CountKind(_, _)
CountKind(lg, kind) ==
    IF lg = <<>> THEN 0
    ELSE (IF Head(lg).kind = kind THEN 1 ELSE 0) + CountKind(Tail(lg), kind)

Successes == CountKind(log, "added")
Skipped == CountKind(log, "nosite")

OxygenSet(atoms) == {k \in 1..Len(atoms) : atoms[k].symbol = "O"}
HydrogenSet(atoms) == {k \in 1..Len(atoms) : atoms[k].symbol = "H"}

Min2(a, b) == IF a < b THEN a ELSE b

\* Source oxygens of the insertions logged so far are pairwise different.
DistinctSources ==
    \A j, k \in 1..Len(log) :
        (j # k /\ log[j].kind = "added" /\ log[k].kind = "added") => log[j].o # log[k].o

\* Every pair of oxygens of the input is more than oh_bond_length + 1.2 apart.
OxygensApart ==
    \A a, b \in OxygenSet(atoms0) :
        a # b => GetDistance2(atoms0, cell, a, b) >
                     (oh_bond_length + ExclusionDist) * (oh_bond_length + ExclusionDist)

(***************************************************************************)
(* C1 as stated: from a structure with no hydrogen and at least one        *)
(* oxygen, a run with the default bond length inserts exactly              *)
(* min(n_protons, number of oxygens) hydrogens, each on a distinct oxygen. *)
(***************************************************************************)
C1_Premise ==
    /\ pc = "done"
    /\ HydrogenSet(atoms0) = {}
    /\ OxygenSet(atoms0) # {}
    /\ oh_bond_length = DefaultOhBondLength

C1_ExactlyMinInserted ==
    C1_Premise =>
        /\ Successes = Min2(n_protons, Cardinality(OxygenSet(atoms0)))
        /\ Cardinality(HydrogenSet(Working)) = Successes
        /\ DistinctSources

(***************************************************************************)
(* C1 amended: such a run inserts at most min(n_protons, number of         *)
(* oxygens) hydrogens and at least one when n_protons >= 1, each on a      *)
(* distinct oxygen; it inserts exactly the minimum, with no 'unavailable'  *)
(* diagnostic while n_protons <= number of oxygens, when every two         *)
(* oxygens of the input are more than oh_bond_length + 1.2 apart.          *)
(***************************************************************************)
C1_AtMostMinInserted ==
    C1_Premise =>
        LET m == Min2(n_protons, Cardinality(OxygenSet(atoms0)))
        IN /\ Successes <= m
           /\ n_protons >= 1 => Successes >= 1
           /\ Cardinality(HydrogenSet(Working)) = Successes
           /\ DistinctSources
           /\ OxygensApart =>
                 /\ Successes = m
                 /\ n_protons <= Cardinality(OxygenSet(atoms0)) => Skipped = 0

C1_Witness ==
    /\ C1_Premise
    /\ OxygensApart
    /\ Cardinality(OxygenSet(atoms0)) = 3
    /\ n_protons = 2
    /\ Successes = 2
    /\ Skipped = 0

(***************************************************************************)
(* C2: a run makes exactly n_protons iterations and ends; every iteration  *)
(* either appends one hydrogen (and logs the insertion) or logs one        *)
(* 'unavailable site' diagnostic and appends nothing; at the end the atom  *)
(* count is the initial count plus the insertions, and insertions plus     *)
(* skips are n_protons.                                                    *)
(***************************************************************************)
C2_IterationEffect ==
    (pc = "loop" /\ i' # i) =>
        /\ i' = i + 1
        /\ Len(log') = Len(log) + 1
        /\ \/ /\ log'[Len(log')].kind = "added"
              /\ Len(heap'[bulk]) = Len(heap[bulk]) + 1
           \/ /\ log'[Len(log')].kind = "nosite"
              /\ heap'[bulk] = heap[bulk]

C2_FinalCount ==
    pc = "done" =>
        /\ i = n_protons
        /\ Len(log) = n_protons
        /\ Len(Working) = Len(atoms0) + Successes
        /\ Successes + Skipped = n_protons

\* Steps left before the run is over: every step of a run lowers it, and it
\* is 0 only when the run is over.
C2_StepsLeft ==
    IF pc = "done" THEN 0
    ELSE IF pc = "loop" THEN 1 + (IF i < n_protons THEN n_protons - i ELSE 0)
    ELSE 2 + n_protons

C2_RunsAllIterations ==
    /\ [][C2_IterationEffect /\ C2_StepsLeft' < C2_StepsLeft]_vars
    /\ [](C2_FinalCount /\ (pc = "done" <=> C2_StepsLeft = 0))

C2_Witness == pc = "done" /\ n_protons = 3 /\ Successes = 2 /\ Skipped = 1

(***************************************************************************)
(* C3: with the default bond length no oxygen is the source of two         *)
(* insertions of one run, the insertions never outnumber the oxygens, and  *)
(* a run asked for more protons than there are oxygens logs at least       *)
(* n_protons - number_of_oxygens 'unavailable site' diagnostics.           *)
(***************************************************************************)
C3_OneProtonPerOxygen ==
    (pc \in {"loop", "done"} /\ oh_bond_length = DefaultOhBondLength) =>
        /\ DistinctSources
        /\ Successes <= Cardinality(OxygenSet(atoms0))
        /\ Cardinality(HydrogenSet(Working)) - Cardinality(HydrogenSet(atoms0))
              <= Cardinality(OxygenSet(atoms0))
        /\ (pc = "done" /\ n_protons > Cardinality(OxygenSet(atoms0))) =>
              Skipped >= n_protons - Cardinality(OxygenSet(atoms0))

C3_Witness ==
    /\ pc = "done"
    /\ oh_bond_length = DefaultOhBondLength
    /\ Cardinality(OxygenSet(atoms0)) = 2
    /\ n_protons = 3
    /\ Successes = 2
    /\ Skipped = 1

(***************************************************************************)
(* C4 as stated: after the call the object that was passed in still has    *)
(* its original atom count, and the returned structure is another object.  *)
(***************************************************************************)
C4_InputUntouched ==
    (pc = "done" /\ Successes > 0) =>
        /\ Len(heap[InputRef]) = Len(atoms0)
        /\ callerBulk # InputRef

(***************************************************************************)
(* C4 amended: the hydrogens are appended to the very object that was      *)
(* passed in and no copy is made: after the call that object holds its     *)
(* original atoms followed by one hydrogen per insertion, and the          *)
(* returned structure is that same object.                                 *)
(***************************************************************************)
C4_InputMutatedInPlace ==
    /\ Len(heap) = 1
    /\ pc \in {"loop", "done"} => bulk = InputRef
    /\ pc = "done" =>
          /\ callerBulk = InputRef
          /\ Len(heap[InputRef]) = Len(atoms0) + Successes
          /\ SubSeq(heap[InputRef], 1, Len(atoms0)) = atoms0

C4_Witness == pc = "done" /\ callerBulk = InputRef /\ Len(heap[InputRef]) = Len(atoms0) + 2

(***************************************************************************)
(* C5: during a run the atom list only grows at its end: the atoms of the  *)
(* input keep their index, symbol and position, every atom beyond them is  *)
(* a hydrogen, and a step leaves the atoms already present where they are. *)
(***************************************************************************)
C5_PrefixKept ==
    pc \in {"loop", "done"} =>
        /\ Len(Working) >= Len(atoms0)
        /\ \A k \in 1..Len(atoms0) : Working[k] = atoms0[k]
        /\ \A k \in (Len(atoms0) + 1)..Len(Working) : Working[k].symbol = "H"

C5_StepAppends ==
    pc = "loop" =>
        /\ Len(heap'[bulk]) >= Len(heap[bulk])
        /\ \A k \in 1..Len(heap[bulk]) : heap'[bulk][k] = heap[bulk][k]

C5_OnlyAppends == [][C5_StepAppends]_vars /\ []C5_PrefixKept

C5_Witness ==
    /\ pc = "loop"
    /\ Len(atoms0) = 3
    /\ Len(Working) = Len(atoms0) + 2
    /\ atoms0[1].symbol = "H"

(***************************************************************************)
(* C6: an iteration that finds every oxygen within 1.2 of some hydrogen    *)
(* (or finds no oxygen at all) logs one 'cannot find suitable O atom'      *)
(* diagnostic, leaves the structure as it is, and the loop goes on: the    *)
(* run still makes all n_protons iterations.                               *)
(***************************************************************************)
C6_NoneAvailable ==
    \A k \in OxygenSet(Working) :
        \E h \in HydrogenSet(Working) :
            GetDistance2(Working, cell, k, h) < ExclusionDist * ExclusionDist

C6_SkipStep ==
    (pc = "loop" /\ i < n_protons /\ C6_NoneAvailable) =>
        /\ heap' = heap
        /\ log' = Append(log, NoSite(i + 1))
        /\ i' = i + 1
        /\ pc' = "loop"

C6_SkipGoesOn == [][C6_SkipStep]_vars /\ [](pc = "done" => Len(log) = n_protons)

C6_Witness ==
    /\ pc = "done"
    /\ OxygenSet(atoms0) = {}
    /\ Len(atoms0) > 0
    /\ n_protons = 3
    /\ Skipped = 3
    /\ Working = atoms0

(***************************************************************************)
(* C7: for a structure without hydrogens, a run with n_protons = 0 returns *)
(* the structure as it was (same atoms, same positions) and logs nothing.  *)
(***************************************************************************)
C7_ZeroProtonsIdentity ==
    (pc = "done" /\ n_protons = 0 /\ HydrogenSet(atoms0) = {}) =>
        /\ heap[callerBulk] = atoms0
        /\ log = <<>>

C7_Witness ==
    /\ pc = "done"
    /\ n_protons = 0
    /\ HydrogenSet(atoms0) = {}
    /\ Cardinality(OxygenSet(atoms0)) = 2
    /\ heap[callerBulk] = atoms0

(***************************************************************************)
(* C8: for every neighbor list, the empty one included, calculate_direction*)
(* returns a vector of magnitude 1 or exactly the fallback (0, 0, 1); the  *)
(* empty list and every list whose closest max_neighbors weighted vectors  *)
(* sum to zero give the fallback.                                          *)
(***************************************************************************)
\* The sum of vec / dist2 over sel as an exact fraction: numerator over the
\* product of the dist2.
RECURSIVE C8_ExactSum(_)
C8_ExactSum(sel) ==
    IF sel = <<>> THEN [num |-> Zero3, den |-> 1]
    ELSE LET r == C8_ExactSum(Tail(sel))
         IN [num |-> VAdd(VScale(Head(sel).dist2, r.num), VScale(r.den, Head(sel).vec)),
             den |-> Head(sel).dist2 * r.den]

C8_Cancels(recs) ==
    LET sel == Closest(recs, max_neighbors)
    IN /\ \A k \in 1..Len(sel) : sel[k].dist2 > 0
       /\ C8_ExactSum(sel).num = Zero3

C8_UnitOrFallback ==
    direction # NoDirection =>
        /\ IsUnit(direction) \/ direction = Fallback
        /\ neighbors = <<>> => direction = Fallback
        /\ C8_Cancels(neighbors) => direction = Fallback
        /\ direction = Fallback => direction.vec = <<0, 0, 1>> /\ IsUnit(direction)

\* One record at distance d against two at distance 2d on the other side.
C8_Witness ==
    /\ Len(neighbors) = 3
    /\ C8_Cancels(neighbors)
    /\ neighbors[1].dist2 # neighbors[2].dist2
    /\ direction = Fallback

(***************************************************************************)
(* C9: when a list already holds at least max_neighbors records, appending *)
(* a record farther than every record of the list leaves the result of     *)
(* calculate_direction as it was.                                          *)
(***************************************************************************)
C9_Farther(old, new) ==
    /\ Len(new) = Len(old) + 1
    /\ SubSeq(new, 1, Len(old)) = old
    /\ Len(old) >= max_neighbors
    /\ \A k \in 1..Len(old) : new[Len(new)].dist2 > old[k].dist2

C9_FartherRecordIgnored ==
    [][C9_Farther(neighbors, neighbors') =>
           calculate_direction(neighbors') = calculate_direction(neighbors)]_vars

C9_Witness ==
    /\ Len(neighbors) = 4
    /\ C9_Farther(SubSeq(neighbors, 1, 3), neighbors)
    /\ direction # NoDirection
    /\ direction # Fallback

(***************************************************************************)
(* C10: an iteration that inserts a hydrogen takes the oxygen of lowest    *)
(* index among those with no hydrogen within 1.2 at that moment: the       *)
(* source is available and every oxygen of lower index is not.  The        *)
(* choice is thus a function of the structure alone.                       *)
(***************************************************************************)
C10_Available(k) ==
    \A h \in HydrogenSet(Working) :
        GetDistance2(Working, cell, k, h) >= ExclusionDist * ExclusionDist

C10_FirstFitStep ==
    (pc = "loop" /\ Len(heap'[bulk]) > Len(heap[bulk])) =>
        LET o == log'[Len(log')].o
        IN /\ o \in OxygenSet(Working)
           /\ C10_Available(o)
           /\ \A k \in OxygenSet(Working) : k < o => ~C10_Available(k)
           /\ o = o_indices[CHOOSE j \in 1..Len(o_indices) :
                                /\ C10_Available(o_indices[j])
                                /\ \A m \in 1..(j - 1) : ~C10_Available(o_indices[m])]

C10_FirstFit == [][C10_FirstFitStep]_vars

C10_Witness ==
    /\ Len(log) >= 2
    /\ log[1].kind = "added" /\ log[1].o = 1
    /\ log[2].kind = "added" /\ log[2].o = 3
    /\ atoms0[2].symbol = "O"

(***************************************************************************)
(* C11: an iteration never places a hydrogen on an oxygen that has, in the *)
(* structure as it is at that moment, a hydrogen (of the input or of an    *)
(* earlier iteration) at minimum-image distance below 1.2; and the         *)
(* threshold is 1.2 whatever oh_bond_length is: an iteration that finds an *)
(* oxygen with no hydrogen below 1.2 does insert.                          *)
(***************************************************************************)
C11_CloseHydrogens(k) ==
    {h \in HydrogenSet(Working) :
        GetDistance2(Working, cell, k, h) < ExclusionDist * ExclusionDist}

C11_PlacementStep ==
    (pc = "loop" /\ i < n_protons) =>
        LET inserts == Len(heap'[bulk]) > Len(heap[bulk])
        IN /\ inserts => C11_CloseHydrogens(log'[Len(log')].o) = {}
           /\ (\E k \in OxygenSet(Working) : C11_CloseHydrogens(k) = {}) => inserts

C11_NoPlacementNearHydrogen == [][C11_PlacementStep]_vars

\* With the long bond the hydrogen of the first insertion is 1.3 from its
\* oxygen, and the second insertion takes the same oxygen again.
C11_Witness ==
    /\ oh_bond_length = LongOhBondLength
    /\ HydrogenSet(atoms0) # {}
    /\ Len(log) >= 2
    /\ log[1].kind = "added" /\ log[2].kind = "added"
    /\ log[1].o = log[2].o

(***************************************************************************)
(* C12: iterations run one after the other on the structure as the         *)
(* earlier ones left it.  Iteration number i + 1 starts with exactly the   *)
(* hydrogens of the i earlier iterations appended; every one of them       *)
(* counts in its availability test (the source has none of them below      *)
(* 1.2, and a skip means every oxygen has a hydrogen below 1.2) and every  *)
(* one within the cutoff of the source has its record in the neighbor      *)
(* list; the hydrogen the iteration itself appends is in neither: the      *)
(* list holds the atoms of the structure before the append only.           *)
(***************************************************************************)
\* Indices of the hydrogens appended by the iterations made so far.
C12_Appended == (Len(atoms0) + 1)..Len(Working)

C12_WithinCutoff(o) ==
    {k \in 1..Len(Working) :
        /\ k # o
        /\ GetDistance2(Working, cell, o, k) < DefaultNeighborMaxDist * DefaultNeighborMaxDist}

C12_IterationStep ==
    (pc = "loop" /\ i' # i) =>
        /\ Cardinality(C12_Appended) = Successes
        /\ log'[Len(log')].h = i + 1
        /\ IF Len(heap'[bulk]) > Len(heap[bulk])
           THEN LET o == log'[Len(log')].o
                IN /\ Len(heap'[bulk]) = Len(heap[bulk]) + 1
                   /\ \A k \in C12_Appended :
                         GetDistance2(Working, cell, o, k) >= ExclusionDist * ExclusionDist
                   /\ \A k \in C12_Appended \cap C12_WithinCutoff(o) :
                         \E r \in 1..Len(neighbors') :
                             neighbors'[r] = NeighborRecord(MicVector(Working, cell, o, k))
                   /\ Len(neighbors') = Cardinality(C12_WithinCutoff(o))
           ELSE \A o \in OxygenSet(Working) :
                    \E k \in HydrogenSet(atoms0) \cup C12_Appended :
                        GetDistance2(Working, cell, o, k) < ExclusionDist * ExclusionDist

C12_SeesEarlierInsertions == [][C12_IterationStep]_vars

\* The second insertion has the hydrogen of the first among its neighbors.
C12_Witness ==
    /\ pc = "loop"
    /\ HydrogenSet(atoms0) = {}
    /\ Len(log) = 2
    /\ log[1].kind = "added" /\ log[2].kind = "added"
    /\ \E r \in 1..Len(neighbors) :
           neighbors[r] = NeighborRecord(MicVector(Working, cell, log[2].o, Len(atoms0) + 1))
    /\ Len(neighbors) = Len(atoms0)

(***************************************************************************)
(* C13.  The neighbor list of an inserting iteration is compared with the  *)
(* structure it was computed on: record number r belongs to the r-th atom  *)
(* within the cutoff of the source oxygen, in index order.                 *)
(***************************************************************************)
\* The atoms other than o within the cutoff of o, in index order.
C13_NeighborIndices(o) ==
    SelectSeq([k \in 1..Len(Working) |-> k],
              LAMBDA k : /\ k # o
                         /\ GetDistance2(Working, cell, o, k)
                               < DefaultNeighborMaxDist * DefaultNeighborMaxDist)

\* v leads from the point `from` to a periodic image of the point `to`.
C13_LeadsToImage(v, from, to) ==
    \A c \in 1..3 : (from[c] + v[c] - to[c]) % cell[c] = 0

\* No image is nearer: no component of v exceeds half the cell.
C13_MinimumImage(v) == \A c \in 1..3 : 2 * Abs(v[c]) <= cell[c]

\* The records of the list are the minimum-image displacements, each over
\* its own length, between the source and its neighbors, every one pointing
\* to the reference atom (towardReference) or every one to the neighbor.
C13_Records(towardReference) ==
    (pc = "loop" /\ Len(heap'[bulk]) > Len(heap[bulk])) =>
        LET o == log'[Len(log')].o
            idx == C13_NeighborIndices(o)
        IN /\ Len(neighbors') = Len(idx)
           /\ \A r \in 1..Len(idx) :
                 /\ neighbors'[r].dist2 = Norm2(neighbors'[r].vec)
                 /\ neighbors'[r].dist2 = GetDistance2(Working, cell, o, idx[r])
                 /\ C13_MinimumImage(neighbors'[r].vec)
                 /\ IF towardReference
                    THEN C13_LeadsToImage(neighbors'[r].vec, Working[idx[r]].position,
                                          Working[o].position)
                    ELSE C13_LeadsToImage(neighbors'[r].vec, Working[o].position,
                                          Working[idx[r]].position)

(***************************************************************************)
(* C13 as stated: for every atom within the cutoff the stored vector is    *)
(* the minimum-image displacement from the neighbor to the reference atom  *)
(* (reference minus neighbor image), normalized.                           *)
(***************************************************************************)
C13_PointsToReference == [][C13_Records(TRUE)]_vars

(***************************************************************************)
(* C13 amended: for every atom within the cutoff the stored vector is the  *)
(* minimum-image displacement from the reference atom to the neighbor      *)
(* (neighbor image minus reference), normalized.                           *)
(***************************************************************************)
C13_PointsToNeighbor == [][C13_Records(FALSE)]_vars

\* A neighbor reached through the cell boundary: its record is not the
\* plain difference of the positions.
C13_Witness ==
    /\ pc = "loop"
    /\ Len(log) = 1
    /\ log[1].kind = "added"
    /\ \E k \in 1..Len(atoms0) :
          /\ k # log[1].o
          /\ MicVector(atoms0, cell, log[1].o, k)
                # VSub(atoms0[k].position, atoms0[log[1].o].position)
          /\ \E r \in 1..Len(neighbors) :
                /\ neighbors[r].vec = MicVector(atoms0, cell, log[1].o, k)
                /\ C13_LeadsToImage(neighbors[r].vec, atoms0[log[1].o].position,
                                    atoms0[k].position)

(***************************************************************************)
(* C14: an inserting iteration appends a hydrogen at the position of the   *)
(* source oxygen plus oh_bond_length times the direction (to the grid, and *)
(* not wrapped into the cell), the direction being the fallback (0, 0, 1)  *)
(* when there is no neighbor and otherwise pointing away from the closest  *)
(* max_neighbors neighbors: its product with their stored vectors          *)
(* weighted by 1/distance is negative.  With exactly one neighbor the      *)
(* offset of the hydrogen is oh_bond_length times minus the unit vector to *)
(* that neighbor: the hydrogen is on the opposite side of the oxygen.      *)
(***************************************************************************)
C14_Dot(u, v) == u[1] * v[1] + u[2] * v[2] + u[3] * v[3]

\* The sum of unit vector / distance = vec / dist2 over sel, in millionths.
RECURSIVE C14_Pull(_)
C14_Pull(sel) ==
    IF sel = <<>> THEN Zero3
    ELSE VAdd(VScale(1000000 \div Head(sel).dist2, Head(sel).vec), C14_Pull(Tail(sel)))

\* off is -len * v / |v| to within one unit of the grid, component by component.
C14_Opposite(off, v, len) ==
    \A c \in 1..3 :
        LET a == Abs(off[c])
            lo == IF a > 0 THEN a - 1 ELSE 0
        IN /\ off[c] * v[c] <= 0
           /\ lo * lo * Norm2(v) <= len * len * v[c] * v[c]
           /\ len * len * v[c] * v[c] <= (a + 1) * (a + 1) * Norm2(v)

C14_PlacementStep ==
    (pc = "loop" /\ Len(heap'[bulk]) > Len(heap[bulk])) =>
        LET o == log'[Len(log')].o
            h == heap'[bulk][Len(heap'[bulk])]
            off == VSub(h.position, Working[o].position)
            sel == Closest(neighbors', max_neighbors)
        IN /\ h.symbol = "H"
           /\ h.position = log'[Len(log')].pos
           /\ off = Scaled(direction', oh_bond_length)
           /\ (oh_bond_length - 1) * (oh_bond_length - 1) <= Norm2(off)
           /\ Norm2(off) <= (oh_bond_length + 1) * (oh_bond_length + 1)
           /\ neighbors' = <<>> => direction' = Fallback
           /\ direction' = Fallback => off = <<0, 0, oh_bond_length>>
           /\ direction' # Fallback => C14_Dot(off, C14_Pull(sel)) < 0
           /\ (Len(neighbors') = 1 /\ neighbors'[1].dist2 > 0) =>
                 /\ C14_Opposite(off, neighbors'[1].vec, oh_bond_length)
                 /\ C14_Dot(off, neighbors'[1].vec) < 0

C14_PlacedAwayFromNeighbors == [][C14_PlacementStep]_vars

\* One neighbor, off the axes: the hydrogen goes to the other side, and its
\* position lies outside the cell, unwrapped.
C14_Witness ==
    /\ pc = "loop"
    /\ Len(log) = 1
    /\ log[1].kind = "added"
    /\ Len(neighbors) = 1
    /\ neighbors[1].vec[1] > 0 /\ neighbors[1].vec[3] < 0
    /\ log[1].pos[1] < atoms0[log[1].o].position[1]
    /\ log[1].pos[3] > atoms0[log[1].o].position[3]
    /\ log[1].pos[1] < 0

(***************************************************************************)
(* C15: every insertion logs the minimum-image distance between the new    *)
(* hydrogen and its source oxygen, measured after the append, and logs the *)
(* deviation advisory exactly when that distance differs from              *)
(* oh_bond_length by more than 0.1 (strictly); with or without the         *)
(* advisory the hydrogen stays in the structure at the position it was     *)
(* given, to the end of the run.                                           *)
(***************************************************************************)
\* The index of the hydrogen appended by the insertion of log record j.
C15_IndexOf(j) == Len(atoms0) + CountKind(SubSeq(log, 1, j), "added")

\* d2 is the squared length of the shortest vector from p to an image of q.
C15_MinimumImageDist2(d2, p, q) ==
    \E v \in {MicVector(<<Atom("H", p), Atom("O", q)>>, cell, 1, 2)} :
        /\ \A c \in 1..3 : (p[c] + v[c] - q[c]) % cell[c] = 0
        /\ \A c \in 1..3 : 2 * Abs(v[c]) <= cell[c]
        /\ d2 = Norm2(v)

C15_AdvisoryIffDeviates ==
    pc \in {"loop", "done"} =>
        \A j \in 1..Len(log) :
            log[j].kind = "added" =>
                LET k == C15_IndexOf(j)
                    lo == oh_bond_length - DeviationTol
                    hi == oh_bond_length + DeviationTol
                IN /\ k <= Len(Working)
                   /\ Working[k] = Atom("H", log[j].pos)
                   /\ C15_MinimumImageDist2(log[j].dist2, log[j].pos,
                                            Working[log[j].o].position)
                   /\ log[j].deviates <=>
                         (log[j].dist2 > hi * hi \/ log[j].dist2 < lo * lo)

\* An insertion with the advisory and a later one without it, both kept.
C15_Witness ==
    /\ pc = "done"
    /\ Len(log) = 3
    /\ log[1].kind = "added" /\ log[1].deviates
    /\ log[2].kind = "added" /\ ~log[2].deviates
    /\ Working[Len(atoms0) + 1] = Atom("H", log[1].pos)
    /\ Len(Working) >= Len(atoms0) + 2

(***************************************************************************)
(* C16: within a run the available oxygens never grow from one iteration   *)
(* to the next (an oxygen that is not available stays so), hence a skip is *)
(* absorbing: after an iteration has logged 'cannot find suitable O atom'  *)
(* every later iteration of the run logs it too and inserts nothing, and   *)
(* all the insertions of a run come before all of its skips.               *)
(***************************************************************************)
C16_AvailableSet(atoms) ==
    {k \in OxygenSet(atoms) :
        \A h \in HydrogenSet(atoms) :
            GetDistance2(atoms, cell, k, h) >= ExclusionDist * ExclusionDist}

C16_NeverGrows ==
    pc = "loop" =>
        /\ C16_AvailableSet(heap'[bulk]) \subseteq C16_AvailableSet(heap[bulk])
        /\ (C16_AvailableSet(heap[bulk]) = {} /\ i' # i) =>
              /\ log'[Len(log')].kind = "nosite"
              /\ heap' = heap

C16_InsertionsBeforeSkips ==
    \A j, k \in 1..Len(log) :
        (j < k /\ log[j].kind = "nosite") => log[k].kind = "nosite"

C16_SkipIsAbsorbing == [][C16_NeverGrows]_vars /\ []C16_InsertionsBeforeSkips

C16_Witness ==
    /\ pc = "done"
    /\ Len(log) = 3
    /\ log[1].kind = "added"
    /\ log[2].kind = "nosite" /\ log[3].kind = "nosite"
    /\ Cardinality(OxygenSet(atoms0)) = 2
    /\ Len(Working) = Len(atoms0) + 1

(***************************************************************************)
(* C17: for every insertion the minimum-image distance measured between    *)
(* the new hydrogen and its oxygen is at most the distance of the two      *)
(* positions themselves, which is oh_bond_length (to the resolution of the *)
(* grid: the hydrogen is put at the oxygen plus oh_bond_length times a     *)
(* unit vector and is not wrapped); so the measured distance is never      *)
(* above oh_bond_length + 0.1, and the advisory is logged only when it is  *)
(* below oh_bond_length - 0.1, which takes a periodic image of the oxygen  *)
(* nearer to the hydrogen than the oxygen itself.                          *)
(***************************************************************************)
C17_MeasuredStep ==
    (pc = "loop" /\ Len(heap'[bulk]) > Len(heap[bulk])) =>
        LET rec == log'[Len(log')]
            off == VSub(rec.pos, Working[rec.o].position)
            lo == oh_bond_length - DeviationTol
            hi == oh_bond_length + DeviationTol
        IN /\ rec.dist2 <= Norm2(off)
           /\ Norm2(off) <= (oh_bond_length + 1) * (oh_bond_length + 1)
           /\ rec.dist2 <= hi * hi
           /\ rec.deviates =>
                 /\ rec.dist2 < lo * lo
                 /\ rec.dist2 < Norm2(off)
                 /\ \E c \in 1..3 : 2 * Abs(off[c]) > cell[c]

C17_AdvisoryOnlyThroughImage == [][C17_MeasuredStep]_vars

\* The long bond in the short cell: the image across the boundary is at
\* c - oh_bond_length.
C17_Witness ==
    /\ pc = "loop"
    /\ Len(log) = 1
    /\ log[1].kind = "added"
    /\ log[1].deviates
    /\ oh_bond_length = LongOhBondLength
    /\ log[1].dist2 = (cell[3] - oh_bond_length) * (cell[3] - oh_bond_length)

(***************************************************************************)
(* C18 as stated: when the construction of the phase diagram raises for a  *)
(* condition, calculate_phase_diagram logs the error and returns, the      *)
(* result kept for that condition has energy_per_atom 0.0 and formation    *)
(* energy and energy above hull None, and run_calculations goes on: no     *)
(* exception leaves it, the conditions are handled in the order A, C, X,   *)
(* and it returns with a result for each.                                  *)
(***************************************************************************)
C18_ErrorLogged(cond) ==
    \E k \in 1..Len(logger) : logger[k] = LogRecord("error", cond)

C18_FailureTolerated ==
    /\ exception = NoException
    /\ run_pc # "raised"
    /\ run_pc \in {"loop", "returned"} =>
          /\ printed = SubSeq(Conditions, 1, condition - 1)
          /\ DOMAIN results = {Conditions[k] : k \in 1..(condition - 1)}
          /\ \A cond \in DOMAIN results :
                entries_data[cond].library = "raises" =>
                    /\ C18_ErrorLogged(cond)
                    /\ results[cond].energy_per_atom = 0
                    /\ results[cond].formation_energy = None
                    /\ results[cond].energy_above_hull = None
    /\ run_pc = "returned" => DOMAIN results = ConditionSet

\* The construction raises for C: the error is logged, UnboundLocalError
\* leaves run_calculations, and X is never handled.
C18_Witness ==
    /\ run_pc = "raised"
    /\ exception = "UnboundLocalError"
    /\ entries_data["A"].library = "with_test_entry"
    /\ entries_data["C"].library = "raises"
    /\ printed = <<"A">>
    /\ DOMAIN results = {"A"}
    /\ C18_ErrorLogged("C")
    /\ logger[Len(logger)] = LogRecord("error", "C")

====
